---- MODULE Spec2Model ----
(***************************************************************************)
(* Model of setup.py, the one-shot interactive setup script of the         *)
(* AmneziaWG config bot: preflight checks, extraction of the server        *)
(* configuration from the container, public IP discovery, the interactive  *)
(* prompts and the emission of the .env file with its backup.              *)
(*                                                                         *)
(* Text that the script trims, tests or splits is a sequence of one-       *)
(* character strings; opaque values (keys, ports) are TLA+ strings.        *)
(***************************************************************************)
EXTENDS Integers, Sequences, FiniteSets, TLC

VARIABLES
    pc,            \* position of the process in main() / create_env_file()
    exit_code,     \* Running while the process lives, then its exit status
    msg,           \* the diagnostic printed when the process ended
    cause,         \* what ended the process: abort reason, interrupt, fault, success
    remote,        \* contents of /opt/amnezia/awg/wg0.conf inside the container
    server_config, \* result of get_server_config()
    pubkey_run,    \* the invocation of "wg pubkey" made by get_server_config()
    lookups,       \* what the IP lookups invoked so far did, in order
    server_ip,     \* main()'s server_ip
    answers,       \* raw operator answers to the prompts asked so far
    env_content,   \* create_env_file()'s rendered env_content
    env,           \* the file .env
    backup,        \* the file .env.backup
    env_before,    \* .env as it was when the run started
    backup_before  \* .env.backup as it was when the run started

vars == <<pc, exit_code, msg, cause, remote, server_config, pubkey_run, lookups,
          server_ip, answers, env_content, env, backup, env_before, backup_before>>

-----------------------------------------------------------------------------
(* Bounds of the model *)

\* at most this many [Peer] sections in the remote text of SpecNet
MaxPeers == 2

\* last octets tried for the interface address and the peers' addresses
Octets == {0, 1, 5, 254, 255}

-----------------------------------------------------------------------------
(* Text helpers *)

Whitespace == {" ", "\n", "\t"}

Digits == {"0", "1", "2", "3", "4", "5", "6", "7", "8", "9"}

RECURSIVE LStrip(_)
LStrip(s) == IF s # <<>> /\ Head(s) \in Whitespace THEN LStrip(Tail(s)) ELSE s

RECURSIVE RStrip(_)
RStrip(s) ==
    IF s # <<>> /\ s[Len(s)] \in Whitespace THEN RStrip(SubSeq(s, 1, Len(s) - 1)) ELSE s

\* str.strip()
Strip(s) == RStrip(LStrip(s))

\* str.isdigit() on ASCII text
IsDigit(s) == s # <<>> /\ \A i \in 1..Len(s) : s[i] \in Digits

\* the groups of s between dots
RECURSIVE SplitDot(_)
SplitDot(s) ==
    IF \A i \in 1..Len(s) : s[i] # "."
    THEN <<s>>
    ELSE LET d == CHOOSE i \in 1..Len(s) : s[i] = "." /\ \A j \in 1..(i - 1) : s[j] # "."
         IN <<SubSeq(s, 1, d - 1)>> \o SplitDot(SubSeq(s, d + 1, Len(s)))

\* re.match(r'^\d{1,3}\.\d{1,3}\.\d{1,3}\.\d{1,3}$', ip)
MatchesIPv4(ip) ==
    LET g == SplitDot(ip)
    IN /\ Len(g) = 4
       /\ \A i \in 1..4 : Len(g[i]) \in 1..3 /\ IsDigit(g[i])

Max2(a, b) == IF a >= b THEN a ELSE b

\* max() of a non-empty list of integers
RECURSIVE MaxSeq(_)
MaxSeq(s) == IF Len(s) = 1 THEN s[1] ELSE Max2(s[1], MaxSeq(Tail(s)))

-----------------------------------------------------------------------------
(* The remote configuration text: a sequence of "key = value" lines.  A value
   is a token (tok) or an address with a prefix length (ip, prefix). *)

Tok(s) == [tok |-> s, ip |-> <<>>, prefix |-> 0]

Cidr(ip, p) == [tok |-> "", ip |-> ip, prefix |-> p]

Line(k, v) == [key |-> k, val |-> v]

BlankLine == Line("", Tok(""))

Opt(b, line) == IF b THEN <<line>> ELSE <<>>

\* the [Interface] section with the chosen fields; h < 0 leaves Address out
Interface(priv, port, jc, h) ==
    Opt(priv, Line("PrivateKey", Tok("SPRIV")))
    \o Opt(h >= 0, Line("Address", Cidr(<<10, 8, 0, h>>, 24)))
    \o Opt(port, Line("ListenPort", Tok("51820")))
    \o Opt(jc, Line("Jc", Tok("4")))

\* a [Peer] section whose AllowedIPs is 10.8.0.o/p
Peer(o, p) ==
    << Line("PublicKey", Tok("PPUB")),
       Line("PresharedKey", Tok("PSK")),
       Line("AllowedIPs", Cidr(<<10, 8, 0, o>>, p)) >>

RECURSIVE Peers(_)
Peers(ps) == IF ps = <<>> THEN <<>> ELSE Peer(Head(ps).o, Head(ps).p) \o Peers(Tail(ps))

PeerLists == UNION { [1..n -> [o : Octets, p : {24, 32}]] : n \in 0..MaxPeers }

\* remote texts of the full run: every subset of four of the known fields,
\* without peers or with one peer
Texts ==
    { Interface(priv, port, jc, h) \o Peers(ps) \o <<BlankLine>> :
        priv \in BOOLEAN, port \in BOOLEAN, jc \in BOOLEAN, h \in {-1, 1},
        ps \in {<<>>, <<[o |-> 5, p |-> 32]>>} }

\* remote texts of the address derivation: every host octet, every peer list
NetTexts ==
    { Interface(TRUE, TRUE, FALSE, h) \o Peers(ps) \o <<BlankLine>> :
        h \in Octets, ps \in PeerLists }

RECURSIVE LStripLines(_)
LStripLines(t) == IF t # <<>> /\ Head(t) = BlankLine THEN LStripLines(Tail(t)) ELSE t

RECURSIVE RStripLines(_)
RStripLines(t) ==
    IF t # <<>> /\ t[Len(t)] = BlankLine THEN RStripLines(SubSeq(t, 1, Len(t) - 1)) ELSE t

\* str.strip() on a text held as lines
StripLines(t) == RStripLines(LStripLines(t))

\* re.search: index of the first line with the key, 0 when there is none
Search(t, k) ==
    IF \E i \in 1..Len(t) : t[i].key = k
    THEN CHOOSE i \in 1..Len(t) : t[i].key = k /\ \A j \in 1..(i - 1) : t[j].key # k
    ELSE 0

\* re.findall(r'AllowedIPs\s*=\s*([0-9.]+)/32', config_output)
FindAllowed32(t) ==
    LET hit(l) == l.key = "AllowedIPs" /\ l.val.prefix = 32
        m == SelectSeq(t, hit)
    IN [i \in 1..Len(m) |-> m[i].val.ip]

-----------------------------------------------------------------------------
(* External commands *)

\* what a subprocess does: it ends with an output and a return code, or
\* subprocess.run raises (the 10 s timeout, a spawn error)
Raw(stdout, rc) == [stdout |-> stdout, returncode |-> rc, raised |-> FALSE]

Raised == [stdout |-> <<>>, returncode |-> 0, raised |-> TRUE]

\* as_lines: the output is a text held as lines, not as characters
run_command(raw, as_lines) ==
    IF raw.raised
    THEN [out |-> <<>>, code |-> 1]
    ELSE [out |-> IF as_lines THEN StripLines(raw.stdout) ELSE Strip(raw.stdout),
          code |-> raw.returncode]

-----------------------------------------------------------------------------
(* get_server_config *)

Params ==
    << [name |-> "Jc", key |-> "JC"], [name |-> "Jmin", key |-> "JMIN"],
       [name |-> "Jmax", key |-> "JMAX"], [name |-> "S1", key |-> "S1"],
       [name |-> "S2", key |-> "S2"], [name |-> "H1", key |-> "H1"],
       [name |-> "H2", key |-> "H2"], [name |-> "H3", key |-> "H3"],
       [name |-> "H4", key |-> "H4"] >>

Put(cond, k, v) == IF cond THEN k :> v ELSE <<>>

\* the for loop over the nine tunables
Tunables(t) ==
    LET found == { i \in 1..Len(Params) : Search(t, Params[i].name) > 0 }
        at(k) == CHOOSE i \in found : Params[i].key = k
    IN [k \in { Params[i].key : i \in found } |-> t[Search(t, Params[at(k)].name)].val.tok]

\* NextClientIP taking the larger of the two candidates instead of letting
\* the peers' maximum override the first one
NextClientIP_NeverLower(t, network) ==
    LET octets == network.ip
        front == SubSeq(octets, 1, Len(octets) - 1)
        first == Max2(2, octets[Len(octets)] + 1)
        allowed_ips == FindAllowed32(t)
        used_octets == [i \in 1..Len(allowed_ips) |-> allowed_ips[i][Len(allowed_ips[i])]]
    IN IF Len(allowed_ips) > 0
       THEN front \o <<Max2(first, MaxSeq(used_octets) + 1)>>
       ELSE front \o <<first>>

\* CLIENT_IP_START from the Address just matched
NextClientIP(t, network) ==
    LET octets == network.ip
        front == SubSeq(octets, 1, Len(octets) - 1)
        next_ip == front \o <<Max2(2, octets[Len(octets)] + 1)>>
        allowed_ips == FindAllowed32(t)
        used_octets == [i \in 1..Len(allowed_ips) |-> allowed_ips[i][Len(allowed_ips[i])]]
    IN IF Len(allowed_ips) > 0 THEN front \o <<MaxSeq(used_octets) + 1>> ELSE next_ip

\* whether get_server_config runs "wg pubkey" on the text
DerivesPublicKey(t) == Search(t, "PublicKey") > 0 /\ Search(t, "PrivateKey") > 0

\* read: result of reading the remote file; derive: result of "wg pubkey"
get_server_config(read, derive) ==
    IF read.code # 0
    THEN [none |-> TRUE, map |-> <<>>, derived |-> FALSE]
    ELSE LET t == read.out
             psk == Search(t, "PresharedKey")
             port == Search(t, "ListenPort")
             addr == Search(t, "Address")
         IN [none |-> FALSE,
             derived |-> DerivesPublicKey(t),
             map |-> Put(DerivesPublicKey(t), "SERVER_PUBLIC_KEY", derive.out)
                     @@ Put(psk > 0, "PRESHARED_KEY", t[psk].val.tok)
                     @@ Put(port > 0, "PORT", t[port].val.tok)
                     @@ Tunables(t)
                     @@ Put(addr > 0, "CLIENT_NETWORK", t[addr].val)
                     @@ Put(addr > 0, "CLIENT_IP_START", NextClientIP(t, t[addr].val))]

\* Python's "not server_config": None and the empty dict are both falsy
Falsy(sc) == sc.none \/ DOMAIN sc.map = {}

-----------------------------------------------------------------------------
(* get_server_ip *)

Services == <<"ifconfig.me", "icanhazip.com", "ipinfo.io/ip">>

\* Accepted without the test of the exit code
Accepted_IgnoresCode(r) == r.out # <<>> /\ MatchesIPv4(r.out)

\* if code == 0 and ip and re.match(...): the lookup's result is accepted
Accepted(r) == r.code = 0 /\ r.out # <<>> /\ MatchesIPv4(r.out)

-----------------------------------------------------------------------------
(* create_env_file *)

Get(map, k, default) == IF k \in DOMAIN map THEN map[k] ELSE default

\* the f-string env_content, one field per KEY=value line
Render(bot_token, admin_id, users, config, ip) ==
    [BOT_TOKEN |-> bot_token,
     ADMIN_ID |-> admin_id,
     USERS |-> users,
     AWG_CONTAINER |-> "amnezia-awg",
     AWG_CONFIG_PATH |-> "/opt/amnezia/awg",
     SERVER_ENDPOINT |-> [ip |-> ip, port |-> Get(config, "PORT", "443")],
     SERVER_PUBLIC_KEY |-> Get(config, "SERVER_PUBLIC_KEY", <<>>),
     PRESHARED_KEY |-> Get(config, "PRESHARED_KEY", ""),
     CLIENT_NETWORK |-> Get(config, "CLIENT_NETWORK", Cidr(<<10, 8, 1, 0>>, 24)),
     CLIENT_IP_START |-> Get(config, "CLIENT_IP_START", <<10, 8, 1, 2>>),
     JC |-> Get(config, "JC", "2"),
     JMIN |-> Get(config, "JMIN", "10"),
     JMAX |-> Get(config, "JMAX", "50"),
     S1 |-> Get(config, "S1", "105"),
     S2 |-> Get(config, "S2", "72"),
     H1 |-> Get(config, "H1", "1632458931"),
     H2 |-> Get(config, "H2", "1121810837"),
     H3 |-> Get(config, "H3", "697439987"),
     H4 |-> Get(config, "H4", "1960185003"),
     DNS_SERVERS |-> "1.1.1.1,1.0.0.1",
     DATABASE_PATH |-> "data/database.db",
     LOG_LEVEL |-> "INFO",
     LOG_FILE |-> "logs/bot.log"]

\* a file: absent, or present with its contents (<<>> is the empty file)
NoFile == [exists |-> FALSE, data |-> <<>>]

File(d) == [exists |-> TRUE, data |-> d]

\* shutil.copy(env_path, backup_path), once the destination is open
CopyData(src) == src.data

\* UsersOrAdmin without the default
UsersOrAdmin_KeepsInput(users_input, admin_id) == users_input

\* main(): users = admin_id if the answer is blank, else the answer
UsersOrAdmin(users_input, admin_id) == IF users_input = <<>> THEN admin_id ELSE users_input

-----------------------------------------------------------------------------
(* The end of the process: sys.exit raises SystemExit, which neither except
   clause of the __main__ block catches; KeyboardInterrupt and Exception are
   caught there. *)

SystemExit(code, m) == [type |-> "SystemExit", code |-> code, msg |-> m]

KeyboardInterrupt == [type |-> "KeyboardInterrupt", code |-> 0, msg |-> ""]

Exception == [type |-> "Exception", code |-> 0, msg |-> ""]

Returned == [type |-> "return", code |-> 0, msg |-> "setup complete"]

\* TopLevel with a single "except BaseException" clause for both faults
TopLevel_OneHandler(exc) ==
    CASE exc.type = "SystemExit" -> [code |-> exc.code, msg |-> exc.msg]
      [] exc.type \in {"KeyboardInterrupt", "Exception"} ->
           [code |-> 1, msg |-> "unexpected error"]
      [] exc.type = "return" -> [code |-> 0, msg |-> exc.msg]

TopLevel(exc) ==
    CASE exc.type = "SystemExit" -> [code |-> exc.code, msg |-> exc.msg]
      [] exc.type = "KeyboardInterrupt" -> [code |-> 1, msg |-> "interrupted by user"]
      [] exc.type = "Exception" -> [code |-> 1, msg |-> "unexpected error"]
      [] exc.type = "return" -> [code |-> 0, msg |-> exc.msg]

\* the process lives until it exits; pc then stays where the run ended
Running == exit_code = <<>>

Terminate(exc, why) ==
    /\ pc' = pc
    /\ exit_code' = <<TopLevel(exc).code>>
    /\ msg' = TopLevel(exc).msg
    /\ cause' = why

Continue(next) ==
    /\ pc' = next
    /\ UNCHANGED <<exit_code, msg, cause>>

-----------------------------------------------------------------------------
(* What the environment and the operator can answer *)

DockerOutcomes == { Raw(<<"2", "4", ".", "0", "\n">>, 0), Raw(<<>>, 127), Raised }

ContainerOutcomes ==
    { Raw(<<"a", "w", "g", "\n">>, 0), Raw(<<"\n">>, 0), Raw(<<>>, 1), Raised }

ReadOutcomes == { Raw(remote, 0), Raw(<<>>, 1), Raised }

DeriveOutcomes == { Raw(<<"S", "P", "U", "B", "\n">>, 0), Raw(<<>>, 1), Raised }

ServiceDigit == <<"1", "2", "3">>

\* service i answers with its own address, with a malformed one, with an
\* address but a failing exit code, or not within the timeout
LookupOutcomes(i) ==
    LET d == ServiceDigit[i]
        ip == <<d, ".", d, ".", d, ".", d>>
    IN { Raw(ip \o <<"\n">>, 0), Raw(<<d, d, d, d>> \o Tail(ip), 0), Raw(ip, 1), Raised }

IpAnswers == { <<" ", "\t">>, <<" ", "5", ".", "5", ".", "5", ".", "5", " ">> }

TokenAnswers == { <<>>, <<" ", "T", "K", " ">> }

AdminAnswers == { <<" ">>, <<"a", "b", "c">>, <<" ", "4", "2", " ">> }

UsersAnswers == { <<>>, <<" ", "\t">>, <<" ", "7", ",", "x", " ">> }

PriorEnv ==
    <<Render(<<"O", "L", "D">>, <<"1">>, <<"1">>, <<>>, <<"9", ".", "9", ".", "9", ".", "9">>)>>

OlderEnv ==
    <<Render(<<"O", "L", "D">>, <<"1">>, <<"2">>, <<>>, <<"8", ".", "8", ".", "8", ".", "8">>)>>

\* .env and .env.backup as a run can find them: nothing, a first output, an
\* output with the backup of the one before, or an .env left empty by a run
\* that died while writing
FilesAtStart ==
    { <<NoFile, NoFile>>, <<File(PriorEnv), NoFile>>, <<File(PriorEnv), File(OlderEnv)>>,
      <<File(<<>>), File(PriorEnv)>>, <<NoFile, File(OlderEnv)>> }

NotCalled == [called |-> FALSE, out |-> <<>>, code |-> 0]

-----------------------------------------------------------------------------
(* The run *)

InitRun ==
    /\ pc = "check_docker"
    /\ exit_code = <<>>
    /\ msg = ""
    /\ cause = ""
    /\ server_config = [none |-> TRUE, map |-> <<>>, derived |-> FALSE]
    /\ pubkey_run = NotCalled
    /\ lookups = <<>>
    /\ server_ip = <<>>
    /\ answers = <<>>
    /\ env_content = <<>>
    /\ \E f \in FilesAtStart : env = f[1] /\ backup = f[2]
    /\ env_before = env
    /\ backup_before = backup

Init == remote \in Texts /\ InitRun

InitNet == remote \in NetTexts /\ InitRun

\* main(): if not check_docker(): sys.exit(1)
CheckDocker ==
    /\ Running /\ pc = "check_docker"
    /\ \E raw \in DockerOutcomes :
         LET r == run_command(raw, FALSE)
         IN IF r.code # 0
            THEN Terminate(SystemExit(1, "docker unavailable"), "check_docker")
            ELSE Continue("check_container")
    /\ UNCHANGED <<remote, server_config, pubkey_run, lookups, server_ip, answers,
                   env_content, env, backup, env_before, backup_before>>

\* main(): if not check_amnezia_container(): sys.exit(1)
CheckContainer ==
    /\ Running /\ pc = "check_container"
    /\ \E raw \in ContainerOutcomes :
         LET r == run_command(raw, FALSE)
         IN IF r.code # 0 \/ r.out = <<>>
            THEN Terminate(SystemExit(1, "container not running"), "check_container")
            ELSE Continue("get_config")
    /\ UNCHANGED <<remote, server_config, pubkey_run, lookups, server_ip, answers,
                   env_content, env, backup, env_before, backup_before>>

\* main(): server_config = get_server_config(); if not server_config: sys.exit(1)
GetServerConfig ==
    /\ Running /\ pc = "get_config"
    /\ \E rd \in ReadOutcomes, dv \in DeriveOutcomes :
         LET read == run_command(rd, TRUE)
             derive == run_command(dv, FALSE)
             sc == get_server_config(read, derive)
         IN /\ server_config' = sc
            /\ pubkey_run' = IF sc.derived
                             THEN [called |-> TRUE, out |-> derive.out, code |-> derive.code]
                             ELSE NotCalled
            /\ IF Falsy(sc)
               THEN Terminate(SystemExit(1, "configuration not obtained"),
                              IF sc.none THEN "read_failed" ELSE "empty_config")
               ELSE Continue("get_ip")
    /\ UNCHANGED <<remote, lookups, server_ip, answers,
                   env_content, env, backup, env_before, backup_before>>

\* get_server_ip(): one pass of "for service in services", and after the last
\* one main()'s "if not server_ip"
GetServerIp ==
    /\ Running /\ pc = "get_ip"
    /\ LET i == Len(lookups) + 1
       IN \E raw \in LookupOutcomes(i) :
            LET r == run_command(raw, FALSE)
            IN /\ lookups' = Append(lookups, raw)
               /\ IF Accepted(r)
                  THEN server_ip' = r.out /\ Continue("ask_token")
                  ELSE /\ server_ip' = server_ip
                       /\ Continue(IF i = Len(Services) THEN "ask_ip" ELSE "get_ip")
    /\ UNCHANGED <<remote, server_config, pubkey_run, answers,
                   env_content, env, backup, env_before, backup_before>>

\* main(): server_ip = input(...).strip(); if not server_ip: sys.exit(1)
AskServerIp ==
    /\ Running /\ pc = "ask_ip"
    /\ \E a \in IpAnswers :
         /\ answers' = ("ip" :> a) @@ answers
         /\ server_ip' = Strip(a)
         /\ IF Strip(a) = <<>>
            THEN Terminate(SystemExit(1, "ip required"), "blank_ip")
            ELSE Continue("ask_token")
    /\ UNCHANGED <<remote, server_config, pubkey_run, lookups,
                   env_content, env, backup, env_before, backup_before>>

\* main(): bot_token = input(...).strip(); if not bot_token: sys.exit(1)
AskBotToken ==
    /\ Running /\ pc = "ask_token"
    /\ \E a \in TokenAnswers :
         /\ answers' = ("token" :> a) @@ answers
         /\ IF Strip(a) = <<>>
            THEN Terminate(SystemExit(1, "token required"), "blank_token")
            ELSE Continue("ask_admin")
    /\ UNCHANGED <<remote, server_config, pubkey_run, lookups, server_ip,
                   env_content, env, backup, env_before, backup_before>>

\* AskAdminId with "if not admin_id" alone
AskAdminId_NoDigitCheck ==
    /\ Running /\ pc = "ask_admin"
    /\ \E a \in AdminAnswers :
         /\ answers' = ("admin" :> a) @@ answers
         /\ IF Strip(a) = <<>>
            THEN Terminate(SystemExit(1, "id must be a number"), "bad_admin")
            ELSE Continue("ask_users")
    /\ UNCHANGED <<remote, server_config, pubkey_run, lookups, server_ip,
                   env_content, env, backup, env_before, backup_before>>

\* main(): admin_id = input(...).strip(); if not admin_id or not admin_id.isdigit()
AskAdminId ==
    /\ Running /\ pc = "ask_admin"
    /\ \E a \in AdminAnswers :
         /\ answers' = ("admin" :> a) @@ answers
         /\ IF Strip(a) = <<>> \/ ~IsDigit(Strip(a))
            THEN Terminate(SystemExit(1, "id must be a number"), "bad_admin")
            ELSE Continue("ask_users")
    /\ UNCHANGED <<remote, server_config, pubkey_run, lookups, server_ip,
                   env_content, env, backup, env_before, backup_before>>

\* main(): users_input = input(...).strip(), the choice of users, and the call
\* of create_env_file up to the rendering of env_content
AskUsers ==
    /\ Running /\ pc = "ask_users"
    /\ \E a \in UsersAnswers :
         LET bot_token == Strip(answers["token"])
             admin_id == Strip(answers["admin"])
             users == UsersOrAdmin(Strip(a), admin_id)
         IN /\ answers' = ("users" :> a) @@ answers
            /\ env_content' = <<Render(bot_token, admin_id, users, server_config.map, server_ip)>>
    /\ Continue("env_exists")
    /\ UNCHANGED <<remote, server_config, pubkey_run, lookups, server_ip,
                   env, backup, env_before, backup_before>>

\* EnvExists with the file opened for writing before any backup is made
EnvExists_SkipsBackup ==
    /\ Running /\ pc = "env_exists"
    /\ Continue("env_open")
    /\ UNCHANGED <<remote, server_config, pubkey_run, lookups, server_ip, answers,
                   env_content, env, backup, env_before, backup_before>>

\* create_env_file(): if env_path.exists()
EnvExists ==
    /\ Running /\ pc = "env_exists"
    /\ Continue(IF env.exists THEN "backup_open" ELSE "env_open")
    /\ UNCHANGED <<remote, server_config, pubkey_run, lookups, server_ip, answers,
                   env_content, env, backup, env_before, backup_before>>

\* shutil.copy: the destination is opened for writing, which empties it
BackupOpen ==
    /\ Running /\ pc = "backup_open"
    /\ backup' = File(<<>>)
    /\ Continue("backup_copy")
    /\ UNCHANGED <<remote, server_config, pubkey_run, lookups, server_ip, answers,
                   env_content, env, env_before, backup_before>>

\* shutil.copy: the contents are copied and the copy returns
BackupCopy ==
    /\ Running /\ pc = "backup_copy"
    /\ backup' = File(CopyData(env))
    /\ Continue("env_open")
    /\ UNCHANGED <<remote, server_config, pubkey_run, lookups, server_ip, answers,
                   env_content, env, env_before, backup_before>>

\* create_env_file(): open(env_path, 'w')
EnvOpen ==
    /\ Running /\ pc = "env_open"
    /\ env' = File(<<>>)
    /\ Continue("env_write")
    /\ UNCHANGED <<remote, server_config, pubkey_run, lookups, server_ip, answers,
                   env_content, backup, env_before, backup_before>>

\* create_env_file(): f.write(env_content) and the end of the with block
EnvWrite ==
    /\ Running /\ pc = "env_write"
    /\ env' = File(env_content)
    /\ Continue("finish")
    /\ UNCHANGED <<remote, server_config, pubkey_run, lookups, server_ip, answers,
                   env_content, backup, env_before, backup_before>>

\* create_env_file() returns True, main() prints the next steps and returns
Finish ==
    /\ Running /\ pc = "finish"
    /\ Terminate(Returned, "success")
    /\ UNCHANGED <<remote, server_config, pubkey_run, lookups, server_ip, answers,
                   env_content, env, backup, env_before, backup_before>>

\* Ctrl-C at any point of the run: except KeyboardInterrupt
Interrupt ==
    /\ Running
    /\ Terminate(KeyboardInterrupt, "interrupt")
    /\ UNCHANGED <<remote, server_config, pubkey_run, lookups, server_ip, answers,
                   env_content, env, backup, env_before, backup_before>>

\* where an exception other than SystemExit can be raised: input() at end of
\* input, the file operations on a full or read-only disk
FaultPoints ==
    {"ask_ip", "ask_token", "ask_admin", "ask_users",
     "backup_open", "backup_copy", "env_open", "env_write"}

\* except Exception
Fault ==
    /\ Running /\ pc \in FaultPoints
    /\ Terminate(Exception, "fault")
    /\ UNCHANGED <<remote, server_config, pubkey_run, lookups, server_ip, answers,
                   env_content, env, backup, env_before, backup_before>>

Next ==
    \/ CheckDocker
    \/ CheckContainer
    \/ GetServerConfig
    \/ GetServerIp
    \/ AskServerIp
    \/ AskBotToken
    \/ AskAdminId
    \/ AskUsers
    \/ EnvExists
    \/ BackupOpen
    \/ BackupCopy
    \/ EnvOpen
    \/ EnvWrite
    \/ Finish
    \/ Interrupt
    \/ Fault

Spec == Init /\ [][Next]_vars

\* the run up to the extraction, over every address and peer list
NextNet ==
    \/ CheckDocker
    \/ CheckContainer
    \/ GetServerConfig

SpecNet == InitNet /\ [][NextNet]_vars

-----------------------------------------------------------------------------
(* Properties of the extraction *)

\* the remote text as get_server_config sees it after a successful read
ConfigText == StripLines(remote)

\* the remote read succeeded and get_server_config returned a mapping
Extracted == ~server_config.none

HasField(k) == \E i \in 1..Len(ConfigText) : ConfigText[i].key = k

\* C1: a remote text that was read successfully never makes the run abort at
\* the extraction step, whatever known fields it holds; the run aborts there
\* only when the remote read failed.
C1_AbortsAtExtractionOnlyOnReadFailure ==
    (~Running /\ pc = "get_config" /\ cause \notin {"interrupt", "fault"})
        => server_config.none

\* C2: whenever the text holds a PrivateKey field, the derivation command is
\* run and its result is stored as SERVER_PUBLIC_KEY, whether or not the text
\* holds a PublicKey field.
C2_DerivesFromEveryPrivateKey ==
    (Extracted /\ HasField("PrivateKey"))
        => /\ pubkey_run.called
           /\ "SERVER_PUBLIC_KEY" \in DOMAIN server_config.map
           /\ server_config.map["SERVER_PUBLIC_KEY"] = pubkey_run.out

\* C7: when the derivation command fails, the run aborts with exit code 1 at
\* the extraction step and the settings file is not written.
C7_FailedDerivationAborts ==
    (pubkey_run.called /\ pubkey_run.code # 0)
        => /\ exit_code = <<1>>
           /\ pc = "get_config"
           /\ env = env_before

\* the last octets of the /32 AllowedIPs entries of the text
PeerOctets ==
    { ConfigText[i].val.ip[4] :
        i \in { j \in 1..Len(ConfigText) :
                  ConfigText[j].key = "AllowedIPs" /\ ConfigText[j].val.prefix = 32 } }

\* the address a.b.c.h of the first Address field of the text
HostAddress ==
    LET i == CHOOSE j \in 1..Len(ConfigText) :
                 ConfigText[j].key = "Address"
                 /\ \A k \in 1..(j - 1) : ConfigText[k].key # "Address"
    IN ConfigText[i].val.ip

\* the N of the specification: max(2, h+1) without /32 entries, one more than
\* the largest of their last octets with them
ExpectedOctet ==
    IF PeerOctets = {}
    THEN (IF HostAddress[4] + 1 > 2 THEN HostAddress[4] + 1 ELSE 2)
    ELSE 1 + (CHOOSE m \in PeerOctets : \A x \in PeerOctets : x <= m)

\* C3: for an Address a.b.c.h/p in the text, CLIENT_IP_START is a.b.c.N with
\* N = max(2, h+1) when the text has no /32 AllowedIPs entry and
\* N = 1 + max(last octets of the /32 entries) when it has one, whatever h is.
C3_ClientIpStart ==
    (Extracted /\ HasField("Address"))
        => /\ "CLIENT_IP_START" \in DOMAIN server_config.map
           /\ server_config.map["CLIENT_IP_START"] =
                <<HostAddress[1], HostAddress[2], HostAddress[3], ExpectedOctet>>

\* an extraction where the /32 entries give a smaller octet than max(2, h+1)
C3_Witness ==
    /\ Extracted /\ HasField("Address")
    /\ PeerOctets # {}
    /\ ExpectedOctet < HostAddress[4] + 1
    /\ server_config.map["CLIENT_IP_START"][4] = ExpectedOctet

\* C10: for octets in 0..255 the last octet of the derived CLIENT_IP_START
\* lies in 1..255.
C10_ClientIpStartIsAnAddress ==
    (Extracted /\ HasField("Address"))
        => server_config.map["CLIENT_IP_START"][4] \in 1..255

-----------------------------------------------------------------------------
(* Properties of the run *)

\* C4: when a settings file with contents C exists at the start of a run
\* that reaches the emission, the copy of C to the backup path is complete
\* before the settings file is opened for writing: once the file is touched
\* or the write has begun (and after a crash in the middle of it, and after
\* the run) the backup exists and holds C.
C4_BackupBeforeWrite ==
    (env_before.exists /\ (pc \in {"env_write", "finish"} \/ env # env_before))
        => /\ backup.exists
           /\ backup.data = env_before.data

\* a run that died in the middle of the write, over an earlier output that
\* already had a backup of its own
C4_Witness ==
    /\ ~Running /\ cause \in {"fault", "interrupt"}
    /\ pc = "env_write"
    /\ env = File(<<>>)
    /\ env_before = File(PriorEnv)
    /\ backup_before = File(OlderEnv)
    /\ backup = File(PriorEnv)

\* the aborts of main(): each is a sys.exit(1) of one step
AbortCauses ==
    {"check_docker", "check_container", "read_failed", "empty_config",
     "blank_ip", "blank_token", "bad_admin"}

\* the step an abort belongs to
AbortStep(c) ==
    CASE c = "check_docker" -> "check_docker"
      [] c = "check_container" -> "check_container"
      [] c \in {"read_failed", "empty_config"} -> "get_config"
      [] c = "blank_ip" -> "ask_ip"
      [] c = "blank_token" -> "ask_token"
      [] c = "bad_admin" -> "ask_admin"

\* a text of whitespace only, or no text
Blank(a) == \A i \in 1..Len(a) : a[i] \in Whitespace

\* a has a character that is neither a digit nor surrounding whitespace
NotANumber(a) ==
    \E i \in 1..Len(a) :
        /\ a[i] \notin Digits
        /\ \E j \in 1..i : a[j] \notin Whitespace
        /\ \E j \in i..Len(a) : a[j] \notin Whitespace

\* C5: every abort ends the process with exit code 1 at the step that
\* aborted, no later step has run, and the settings file and the backup file
\* are as they were before the run; a blank bot token and a blank or
\* non-digit administrator identifier always abort.
C5_AbortLeavesFilesAlone ==
    /\ (~Running /\ cause \in AbortCauses)
         => /\ exit_code = <<1>>
            /\ pc = AbortStep(cause)
            /\ env = env_before /\ backup = backup_before
            /\ env_content = <<>>
            /\ cause \in {"check_docker", "check_container"}
                 => server_config.none /\ ~pubkey_run.called
            /\ cause \notin {"blank_ip", "blank_token", "bad_admin"}
                 => lookups = <<>> /\ answers = <<>>
            /\ cause = "blank_ip" => DOMAIN answers = {"ip"}
            /\ cause = "blank_token" => DOMAIN answers \in {{"token"}, {"ip", "token"}}
            /\ cause = "bad_admin" => "users" \notin DOMAIN answers
    /\ ("token" \in DOMAIN answers /\ Blank(answers["token"]))
         => ~Running /\ cause = "blank_token"
    /\ ("admin" \in DOMAIN answers
          /\ (Blank(answers["admin"]) \/ NotANumber(answers["admin"])))
         => ~Running /\ cause = "bad_admin"

\* the administrator identifier "abc" was given while both files existed
C5_Witness ==
    /\ ~Running /\ cause = "bad_admin"
    /\ answers["admin"] = <<"a", "b", "c">>
    /\ env_before = File(PriorEnv) /\ backup_before = File(OlderEnv)
    /\ env = env_before /\ backup = backup_before

\* a lookup that exits with code 0 and whose trimmed output is a dotted quad
LookupOk(raw) ==
    /\ ~raw.raised
    /\ raw.returncode = 0
    /\ MatchesIPv4(Strip(raw.stdout))

\* x is raw without the whitespace at its two ends
TrimOf(x, raw) ==
    /\ x = <<>> \/ (x[1] \notin Whitespace /\ x[Len(x)] \notin Whitespace)
    /\ \E i \in 0..Len(raw) :
         /\ i + Len(x) <= Len(raw)
         /\ SubSeq(raw, i + 1, i + Len(x)) = x
         /\ \A k \in 1..Len(raw) : (k <= i \/ k > i + Len(x)) => raw[k] \in Whitespace

\* the public IP discovery is over
IpStepOver == pc \notin {"check_docker", "check_container", "get_config", "get_ip"}

\* C6: the server IP is the trimmed output of the earliest lookup, in the
\* order of the three services, that exits with code 0 and matches the
\* dotted-quad pattern, and no lookup is invoked after it; when all three
\* fail the operator is asked for the IP, and the run aborts at this step if
\* and only if the answer is blank.
C6_EarliestLookupWins ==
    /\ Len(lookups) <= Len(Services)
    /\ \A i \in 1..Len(lookups) : LookupOk(lookups[i]) => i = Len(lookups)
    /\ pc = "get_ip" => \A i \in 1..Len(lookups) : ~LookupOk(lookups[i])
    /\ IpStepOver =>
         IF LookupOk(lookups[Len(lookups)])
         THEN /\ TrimOf(server_ip, lookups[Len(lookups)].stdout)
              /\ "ip" \notin DOMAIN answers
              /\ cause # "blank_ip"
         ELSE /\ Len(lookups) = Len(Services)
              /\ "ip" \notin DOMAIN answers => pc = "ask_ip" /\ cause # "blank_ip"
              /\ "ip" \in DOMAIN answers =>
                   /\ TrimOf(server_ip, answers["ip"])
                   /\ (cause = "blank_ip") <=> Blank(answers["ip"])
                   /\ Blank(answers["ip"]) => ~Running /\ pc = "ask_ip"
    /\ env_content # <<>> => env_content[1].SERVER_ENDPOINT.ip = server_ip
    /\ (IpStepOver /\ pc # "ask_ip") => server_ip # <<>>

\* the second service answered after the first one failed, the third was
\* never asked, and the settings file was written with the second's address
C6_Witness ==
    /\ ~Running /\ cause = "success"
    /\ Len(lookups) = 2
    /\ ~LookupOk(lookups[1]) /\ LookupOk(lookups[2])
    /\ env.data[1].SERVER_ENDPOINT.ip = <<"2", ".", "2", ".", "2", ".", "2">>

\* C8 as stated: an interrupt ends the process with an exit status that no
\* abort and no other fault produces.
C8_InterruptStatusIsDistinct ==
    (~Running /\ cause = "interrupt")
        => /\ exit_code # <<TopLevel(Exception).code>>
           /\ exit_code # <<TopLevel(SystemExit(1, "")).code>>

\* C8 as amended: an interrupt at any point ends the process through its own
\* handler, with a message no other ending prints, and with exit status 1,
\* the status of the aborts and of the other faults.
C8_InterruptOwnMessageSameStatus ==
    ~Running =>
        /\ (cause = "interrupt") <=> (msg = "interrupted by user")
        /\ cause = "interrupt" => exit_code = <<1>>
        /\ cause \in AbortCauses \cup {"fault"} => exit_code = <<1>>
        /\ (cause = "success") <=> (exit_code = <<0>>)

\* the interrupt came in the middle of the write of the settings file
C8_Witness ==
    /\ ~Running /\ cause = "interrupt"
    /\ pc = "env_write"
    /\ msg = "interrupted by user"
    /\ exit_code = <<1>>

\* C9: with a valid administrator identifier, a blank answer to the
\* allow-list prompt makes USERS the administrator identifier, and any other
\* answer makes USERS that answer, trimmed and otherwise unchanged.
C9_UsersDefaultsToAdmin ==
    env_content # <<>> =>
        /\ ~Blank(answers["admin"]) /\ ~NotANumber(answers["admin"])
        /\ TrimOf(env_content[1].ADMIN_ID, answers["admin"])
        /\ IF Blank(answers["users"])
           THEN env_content[1].USERS = env_content[1].ADMIN_ID
           ELSE TrimOf(env_content[1].USERS, answers["users"])
        /\ (pc = "finish" => env = File(env_content))

\* the allow-list prompt was answered with whitespace and the file written
C9_Witness ==
    /\ ~Running /\ cause = "success"
    /\ answers["users"] = <<" ", "\t">>
    /\ env.data[1].USERS = <<"4", "2">>

====
